---------------------------- MODULE Spec2Model ----------------------------
(***************************************************************************)
(* Model of backend/app.py: a Flask service that keeps user records in the *)
(* module-level list users_data and exposes GET / POST / PUT / DELETE      *)
(* handlers over it.                                                       *)
(*                                                                         *)
(* Strings are sequences of one-character strings, so that str.strip() is  *)
(* computed rather than assumed.  A JSON value of a request body is a      *)
(* record [kind, s]: kind "str" carries the string s, kind "absent" means  *)
(* the key is not in the object, kind "nonstr" is any JSON value that is   *)
(* not a string (number, null, list, ...), on which .strip() raises.       *)
(***************************************************************************)
EXTENDS Naturals, Sequences, FiniteSets

(***************************************************************************)
(* Bounds of the model.                                                    *)
(***************************************************************************)
\* Number of uuid.uuid4() calls (successful creates) explored.
MaxCreates == 3

(***************************************************************************)
(* Strings and str.strip().                                                *)
(***************************************************************************)
\* Characters str.strip() removes (the ones the inputs below use).
Whitespace == {" ", "\t"}

RECURSIVE lstrip(_)
lstrip(s) ==
    IF s = <<>> THEN s
    ELSE IF Head(s) \in Whitespace THEN lstrip(Tail(s)) ELSE s

RECURSIVE rstrip(_)
rstrip(s) ==
    IF s = <<>> THEN s
    ELSE IF s[Len(s)] \in Whitespace THEN rstrip(SubSeq(s, 1, Len(s) - 1)) ELSE s

\* strip with a plausible defect: only the leading whitespace is removed.
strip_leading_only(s) == lstrip(s)

\* str.strip(): remove leading and trailing whitespace.
strip(s) == rstrip(lstrip(s))

(***************************************************************************)
(* JSON values and request bodies.                                         *)
(***************************************************************************)
Absent == [kind |-> "absent", s |-> <<>>]
NonStr == [kind |-> "nonstr", s |-> <<>>]
Str(s) == [kind |-> "str", s |-> s]

\* required_fields with a plausible defect: email is checked before surname.
required_fields_reordered == <<"name", "email", "surname", "company", "jobTitle">>

\* The list the create handler walks, in its order.
required_fields == <<"name", "surname", "email", "company", "jobTitle">>

Fields == {required_fields[i] : i \in 1..Len(required_fields)}

\* Values each key of a submitted JSON object is drawn from.
NameValues    == {Absent, NonStr, Str(<<" ">>), Str(<<" ", "n", " ", "m">>)}
SurnameValues == {Absent, Str(<<"s", " ">>)}
EmailValues   == {Absent, NonStr, Str(<<"\t">>), Str(<<" ", "a", " ">>), Str(<<"b">>)}
CompanyValues == {Str(<<" ", " ">>), Str(<<"\t", "c", " ">>)}
JobValues     == {Str(<<>>), Str(<<"j">>)}

Objects ==
    { [name |-> n, surname |-> s, email |-> e, company |-> c, jobTitle |-> j] :
        n \in NameValues, s \in SurnameValues, e \in EmailValues,
        c \in CompanyValues, j \in JobValues }

EmptyObject == [f \in Fields |-> Absent]

\* What the request carries as its body: text that does not parse as JSON
\* ("malformed"), the JSON value null, or a JSON object.
Bodies ==
    { [json |-> "malformed", data |-> EmptyObject], [json |-> "null", data |-> EmptyObject] }
    \cup { [json |-> "object", data |-> d] : d \in Objects }

(***************************************************************************)
(* Responses: jsonify(payload), status.                                    *)
(***************************************************************************)
Response(status, payload) == [status |-> status, json |-> payload]

ErrorJson(msg) == [error |-> msg]

MissingField(field) == Response(400, ErrorJson(<<"Missing required field: ", field>>))
EmailExists  == Response(400, ErrorJson(<<"Email already exists">>))
NotFound     == Response(404, ErrorJson(<<"User not found">>))
\* except Exception as e: the message is str(e) of whatever was raised.
ServerError  == Response(500, ErrorJson(<<"str(e)">>))

(***************************************************************************)
(* uuid.uuid4(): the n-th call yields a value no earlier call yielded; the *)
(* rendering str(...) is a non-empty string.                               *)
(***************************************************************************)
\* uuid4 with a plausible defect: the identifier is derived from how many records are stored.
uuid4_from_length(users, calls) == <<"u", Len(users) + 1>>

uuid4(users, calls) == <<"u", calls + 1>>

(***************************************************************************)
(* GET /api/users                                                          *)
(***************************************************************************)
\* get_users with a plausible defect: the list is returned newest first.
get_users_reversed(users) ==
    [users |-> users,
     resp  |-> Response(200, [users |-> [i \in 1..Len(users) |-> users[Len(users) + 1 - i]]])]

get_users(users) ==
    [users |-> users, resp |-> Response(200, [users |-> users])]

(***************************************************************************)
(* POST /api/users                                                         *)
(***************************************************************************)
\* The loop over required_fields from position i on: "ok" when every field
\* passes, the 400 response for the first field absent or blank, "raise"
\* when .strip() is called on a value that is not a string.
RECURSIVE validate(_, _)
validate(data, i) ==
    IF i > Len(required_fields) THEN [outcome |-> "ok", field |-> ""]
    ELSE LET field == required_fields[i]
             v     == data[field]
         IN  IF v.kind = "absent" THEN [outcome |-> "missing", field |-> field]
             ELSE IF v.kind = "nonstr" THEN [outcome |-> "raise", field |-> field]
             ELSE IF strip(v.s) = <<>> THEN [outcome |-> "missing", field |-> field]
             ELSE validate(data, i + 1)

\* any(user['email'] == data['email'] for user in users_data)
email_exists(users, data) ==
    \E i \in 1..Len(users) : users[i].email = data.email.s

\* append with a plausible defect: a record whose email is already stored is silently dropped.
append_unless_stored(users, u) ==
    IF \E i \in 1..Len(users) : users[i].email = u.email THEN users ELSE Append(users, u)

\* users_data.append(new_user)
append(users, u) == Append(users, u)

new_user(users, calls, data) ==
    [uuid     |-> uuid4(users, calls),
     name     |-> strip(data.name.s),
     surname  |-> strip(data.surname.s),
     email    |-> strip(data.email.s),
     company  |-> strip(data.company.s),
     jobTitle |-> strip(data.jobTitle.s)]

\* create_user with a plausible defect: the record is appended before the duplicate check.
create_user_append_first(users, calls, body) ==
    IF body.json # "object" THEN [users |-> users, calls |-> calls, resp |-> ServerError]
    ELSE LET v == validate(body.data, 1)
         IN  IF v.outcome = "raise"
                THEN [users |-> users, calls |-> calls, resp |-> ServerError]
             ELSE IF v.outcome = "missing"
                THEN [users |-> users, calls |-> calls, resp |-> MissingField(v.field)]
             ELSE LET u == new_user(users, calls, body.data)
                  IN  IF email_exists(users, body.data)
                         THEN [users |-> Append(users, u), calls |-> calls + 1,
                               resp |-> EmailExists]
                         ELSE [users |-> Append(users, u), calls |-> calls + 1,
                               resp |-> Response(201, u)]

create_user(users, calls, body) ==
    IF body.json = "malformed"
       \* request.get_json() raises on a body that does not parse
       THEN [users |-> users, calls |-> calls, resp |-> ServerError]
    ELSE IF body.json = "null"
       \* data is None: `field not in data` raises TypeError
       THEN [users |-> users, calls |-> calls, resp |-> ServerError]
    ELSE LET v == validate(body.data, 1)
         IN  IF v.outcome = "raise"
                THEN [users |-> users, calls |-> calls, resp |-> ServerError]
             ELSE IF v.outcome = "missing"
                THEN [users |-> users, calls |-> calls, resp |-> MissingField(v.field)]
             ELSE IF email_exists(users, body.data)
                THEN [users |-> users, calls |-> calls, resp |-> EmailExists]
             ELSE LET u == new_user(users, calls, body.data)
                  IN  [users |-> append(users, u), calls |-> calls + 1,
                       resp  |-> Response(201, u)]

(***************************************************************************)
(* PUT /api/users/<user_uuid>                                              *)
(***************************************************************************)
\* Index of the first record whose uuid is user_uuid, 0 when there is none.
find_index(users, user_uuid) ==
    IF \E i \in 1..Len(users) : users[i].uuid = user_uuid
       THEN CHOOSE i \in 1..Len(users) :
                /\ users[i].uuid = user_uuid
                /\ \A j \in 1..(i - 1) : users[j].uuid # user_uuid
       ELSE 0

\* update_user with a plausible defect: the string fields of the body are written to the record.
update_user_applies_body(users, user_uuid, body) ==
    IF body.json = "malformed" THEN [users |-> users, resp |-> ServerError]
    ELSE LET i == find_index(users, user_uuid)
         IN  IF i = 0 THEN [users |-> users, resp |-> NotFound]
             ELSE LET upd == [f \in DOMAIN users[i] |->
                                 IF f \in Fields /\ body.data[f].kind = "str"
                                    THEN strip(body.data[f].s) ELSE users[i][f]]
                  IN  [users |-> [users EXCEPT ![i] = upd], resp |-> Response(200, upd)]

update_user(users, user_uuid, body) ==
    IF body.json = "malformed"
       \* request.get_json() raises on a body that does not parse
       THEN [users |-> users, resp |-> ServerError]
    ELSE LET i == find_index(users, user_uuid)
         IN  IF i = 0 THEN [users |-> users, resp |-> NotFound]
             ELSE [users |-> users, resp |-> Response(200, users[i])]

(***************************************************************************)
(* DELETE /api/users/<user_uuid>                                           *)
(***************************************************************************)
\* users_data.pop(i)
pop(users, i) == SubSeq(users, 1, i - 1) \o SubSeq(users, i + 1, Len(users))

\* delete_user with a plausible defect: the list is truncated at the record found.
delete_user_truncates(users, user_uuid) ==
    LET i == find_index(users, user_uuid)
    IN  IF i = 0 THEN [users |-> users, resp |-> NotFound]
        ELSE [users |-> SubSeq(users, 1, i - 1),
              resp  |-> Response(200, [message |-> <<"User deleted successfully">>,
                                       user    |-> users[i]])]

delete_user(users, user_uuid) ==
    LET i == find_index(users, user_uuid)
    IN  IF i = 0 THEN [users |-> users, resp |-> NotFound]
        ELSE [users |-> pop(users, i),
              resp  |-> Response(200, [message |-> <<"User deleted successfully">>,
                                       user    |-> users[i]])]

(***************************************************************************)
(* The service handling one request at a time.                             *)
(*                                                                         *)
(* users_data and uuid_calls are the program's state.  request and         *)
(* response record the request handled last and what it was answered.      *)
(* created, submitted and deleted are history: the records answered with   *)
(* 201 in order, the JSON object each was created from, and the uuids      *)
(* answered with 200 by DELETE.                                            *)
(***************************************************************************)
VARIABLES users_data, uuid_calls, request, response, created, submitted, deleted,
          threads

vars == <<users_data, uuid_calls, request, response, created, submitted, deleted,
          threads>>

\* Path parameters tried: every uuid that can have been issued, and one that never is.
PathUuids == { <<"u", n>> : n \in 1..(MaxCreates + 1) }

\* Bodies sent with PUT: unparseable, null, and objects that vary name and email.
UpdateBodies ==
    { b \in Bodies : \/ b.json # "object"
                     \/ /\ b.data.surname = Absent
                        /\ b.data.company = Str(<<" ", " ">>)
                        /\ b.data.jobTitle = Str(<<>>) }

NoUuid == <<>>

\* What is recorded of a request: its method, its path parameter, how its body
\* parses and, of a POST, the email value the body carries.
Request(method, user_uuid, json, email) ==
    [method |-> method, user_uuid |-> user_uuid, json |-> json, email |-> email]

Threads == {1, 2}

\* A handler thread between requests.  checked_len and appended_at are history:
\* the length of users_data when the thread's duplicate check passed, and the
\* position its record was appended at (0: not yet).
IdleThread == [pc |-> "idle", data |-> EmptyObject, new_user |-> <<>>,
               resp |-> Response(0, ErrorJson(<<>>)),
               checked_len |-> 0, appended_at |-> 0]

Init ==
    /\ users_data = <<>>
    /\ uuid_calls = 0
    /\ request = Request("none", NoUuid, "none", Absent)
    /\ response = Response(0, ErrorJson(<<>>))
    /\ created = <<>>
    /\ submitted = <<>>
    /\ deleted = {}
    /\ threads = [t \in Threads |-> IdleThread]

GetUsers ==
    \E r \in {get_users(users_data)} :
        /\ users_data' = r.users
        /\ response' = r.resp
        /\ request' = Request("GET", NoUuid, "none", Absent)
        /\ UNCHANGED <<uuid_calls, created, submitted, deleted, threads>>

CreateUser ==
    \E body \in Bodies :
        \E r \in {create_user(users_data, uuid_calls, body)} :
            /\ r.calls <= MaxCreates
            /\ users_data' = r.users
            /\ uuid_calls' = r.calls
            /\ response' = r.resp
            /\ request' = Request("POST", NoUuid, body.json, body.data.email)
            /\ created' = IF r.resp.status = 201 THEN Append(created, r.resp.json)
                                                 ELSE created
            /\ submitted' = IF r.resp.status = 201 THEN Append(submitted, body.data)
                                                   ELSE submitted
            /\ UNCHANGED <<deleted, threads>>

UpdateUser ==
    \E user_uuid \in PathUuids, body \in UpdateBodies :
        \E r \in {update_user(users_data, user_uuid, body)} :
            /\ users_data' = r.users
            /\ response' = r.resp
            /\ request' = Request("PUT", user_uuid, body.json, Absent)
            /\ UNCHANGED <<uuid_calls, created, submitted, deleted, threads>>

DeleteUser ==
    \E user_uuid \in PathUuids :
        \E r \in {delete_user(users_data, user_uuid)} :
            /\ users_data' = r.users
            /\ response' = r.resp
            /\ request' = Request("DELETE", user_uuid, "none", Absent)
            /\ deleted' = IF r.resp.status = 200 THEN deleted \cup {user_uuid}
                                                 ELSE deleted
            /\ UNCHANGED <<uuid_calls, created, submitted, threads>>

Next == GetUsers \/ CreateUser \/ UpdateUser \/ DeleteUser

Spec == Init /\ [][Next]_vars

(***************************************************************************)
(* Vocabulary of the claims, stated without the handlers' own helpers.     *)
(***************************************************************************)
Range(seq) == {seq[i] : i \in 1..Len(seq)}

\* Every character of s is whitespace (s is empty after trimming).
Blank(s) == \A i \in 1..Len(s) : s[i] \in {" ", "\t"}

\* t is s without its leading and trailing whitespace.
IsTrimOf(t, s) ==
    /\ t # <<>> => (t[1] \notin {" ", "\t"} /\ t[Len(t)] \notin {" ", "\t"})
    /\ \E i \in 0..Len(s), j \in 0..Len(s) :
          /\ i <= j
          /\ SubSeq(s, i + 1, j) = t
          /\ Blank(SubSeq(s, 1, i))
          /\ Blank(SubSeq(s, j + 1, Len(s)))

\* The field order the specification fixes.
FieldOrder == <<"name", "surname", "email", "company", "jobTitle">>

\* The value is absent, or a string that is empty after trimming.
Fails(v) == v.kind = "absent" \/ (v.kind = "str" /\ Blank(v.s))

\* The value is a string that is non-empty after trimming.
Filled(v) == v.kind = "str" /\ ~Blank(v.s)

AllFilled(data) == \A i \in 1..Len(FieldOrder) : Filled(data[FieldOrder[i]])

FirstFailing(data) ==
    CHOOSE i \in 1..Len(FieldOrder) :
        /\ Fails(data[FieldOrder[i]])
        /\ \A j \in 1..(i - 1) : ~Fails(data[FieldOrder[j]])

StoredUuids == {users_data[i].uuid : i \in 1..Len(users_data)}

\* The records answered with 201 and not deleted since, in creation order.
Live ==
    LET NotDeleted(r) == r.uuid \notin deleted
    IN  SelectSeq(created, NotDeleted)

(***************************************************************************)
(* C1: in every state reached by POST, PUT and DELETE requests handled one *)
(* at a time, no two stored records have the same email.                   *)
(* Fails on the code: the duplicate check compares the stored (trimmed)    *)
(* email with the incoming untrimmed one, so " a " is accepted twice.      *)
(***************************************************************************)
C1_UniqueEmails ==
    \A i, j \in 1..Len(users_data) :
        i # j => users_data[i].email # users_data[j].email

(***************************************************************************)
(* C2: a POST whose body carries the same email as an earlier successful   *)
(* POST whose record is still stored is answered 400 "Email already        *)
(* exists", for every email value the first POST accepted, whitespace      *)
(* around it included.  Fails on the code for emails with surrounding      *)
(* whitespace.                                                             *)
(***************************************************************************)
C2_SameEmailRejected ==
    \A k \in 1..Len(created) :
        created[k].uuid \in StoredUuids =>
            \A body \in Bodies :
                (/\ body.json = "object"
                 /\ AllFilled(body.data)
                 /\ body.data.email = submitted[k].email)
                => create_user(users_data, uuid_calls, body).resp = EmailExists

(***************************************************************************)
(* C3 as stated: a POST whose JSON object has at least one of the five     *)
(* fields absent or empty after trimming is answered 400 "Missing required *)
(* field: <field>" for the first such field in the fixed order, whatever   *)
(* email it carries.  Fails on the code when a field before the first      *)
(* absent or empty one holds a value that is not a string: .strip() raises *)
(* and the answer is 500.                                                  *)
(***************************************************************************)
C3_MissingFieldAsStated ==
    \A body \in Bodies :
        (/\ body.json = "object"
         /\ \E f \in Fields : Fails(body.data[f]))
        => create_user(users_data, uuid_calls, body).resp
             = MissingField(FieldOrder[FirstFailing(body.data)])

(***************************************************************************)
(* C3 amended: a POST whose JSON object has at least one of the five       *)
(* fields absent or empty after trimming, every field before the first     *)
(* such one holding a string, is answered 400 "Missing required field:     *)
(* <field>" for that first field in the order name, surname, email,        *)
(* company, jobTitle; the store is left as it was, and this holds also     *)
(* when the body's email equals a stored email.                            *)
(***************************************************************************)
C3_MissingField ==
    \A body \in Bodies :
        (/\ body.json = "object"
         /\ \E f \in Fields : Fails(body.data[f])
         /\ \A j \in 1..(FirstFailing(body.data) - 1) :
                body.data[FieldOrder[j]].kind = "str")
        => LET r == create_user(users_data, uuid_calls, body)
           IN  /\ r.resp = MissingField(FieldOrder[FirstFailing(body.data)])
               /\ r.resp # EmailExists
               /\ r.users = users_data

\* A POST lacking jobTitle was answered with the missing-field error although
\* the email it carried is the email of a stored record.
C3_Witness ==
    /\ request.method = "POST"
    /\ request.email.kind = "str"
    /\ \E i \in 1..Len(users_data) : users_data[i].email = request.email.s
    /\ response = MissingField("jobTitle")

(***************************************************************************)
(* C4 as stated: a POST with all five fields non-empty after trimming and  *)
(* an email equal to no stored email is answered 201 with the full new     *)
(* record, whose `id` is non-empty and differs from the id of every record *)
(* created earlier, deleted ones included.  Fails on the code: the record  *)
(* has no key `id`; its identifier is under the key `uuid`.                *)
(***************************************************************************)
C4_CreatedAsStated ==
    \A body \in Bodies :
        (/\ body.json = "object"
         /\ AllFilled(body.data)
         /\ \A i \in 1..Len(users_data) : users_data[i].email # body.data.email.s)
        => LET r == create_user(users_data, uuid_calls, body)
           IN  /\ r.resp.status = 201
               /\ DOMAIN r.resp.json = {"id"} \cup Fields
               /\ r.resp.json.id # <<>>
               /\ \A k \in 1..Len(created) : r.resp.json.id # created[k].id

(***************************************************************************)
(* C4 amended: a POST with all five fields non-empty after trimming and an *)
(* email equal to no stored email is answered 201 with the full new        *)
(* record, whose keys are uuid, name, surname, email, company, jobTitle;   *)
(* its `uuid` is non-empty and differs from the uuid of every record       *)
(* created earlier, deleted ones included; and every stored record is, key *)
(* for key, the record its creation answered, so its uuid never changes.   *)
(***************************************************************************)
C4_Created ==
    /\ \A body \in Bodies :
        (/\ body.json = "object"
         /\ AllFilled(body.data)
         /\ \A i \in 1..Len(users_data) : users_data[i].email # body.data.email.s)
        => LET r == create_user(users_data, uuid_calls, body)
           IN  /\ r.resp.status = 201
               /\ DOMAIN r.resp.json = {"uuid"} \cup Fields
               /\ Len(r.resp.json.uuid) > 0
               /\ \A k \in 1..Len(created) : r.resp.json.uuid # created[k].uuid
    /\ \A k, l \in 1..Len(created) : k # l => created[k].uuid # created[l].uuid
    /\ \A i \in 1..Len(users_data) : users_data[i] \in Range(created)

\* A create was answered 201 after an earlier record had been created and deleted.
C4_Witness ==
    /\ request.method = "POST"
    /\ response.status = 201
    /\ deleted # {}
    /\ Len(created) >= 2
    /\ response.json = created[Len(created)]

(***************************************************************************)
(* C5: in every reachable state each stored record's name, surname, email, *)
(* company and jobTitle are non-empty strings with no leading or trailing  *)
(* whitespace, each the trimmed value of the field submitted in the POST   *)
(* that created the record.                                                *)
(***************************************************************************)
C5_StoredTrimmed ==
    \A i \in 1..Len(users_data) :
        \E k \in 1..Len(created) :
            /\ created[k].uuid = users_data[i].uuid
            /\ \A f \in Fields :
                  /\ submitted[k][f].kind = "str"
                  /\ users_data[i][f] # <<>>
                  /\ IsTrimOf(users_data[i][f], submitted[k][f].s)

\* A stored record whose email was submitted with whitespace around it.
C5_Witness ==
    \E i \in 1..Len(users_data) :
        \E k \in 1..Len(created) :
            /\ created[k].uuid = users_data[i].uuid
            /\ submitted[k].email.s # users_data[i].email
            /\ submitted[k].name.s # users_data[i].name

\* The record stored under user_uuid (there is at most one, see C4).
StoredRecord(user_uuid) ==
    CHOOSE u \in Range(users_data) : u.uuid = user_uuid

\* users_data without the records whose uuid is user_uuid, order kept.
Without(user_uuid) ==
    LET Other(u) == u.uuid # user_uuid
    IN  SelectSeq(users_data, Other)

Deleted(u) == Response(200, [message |-> <<"User deleted successfully">>, user |-> u])

(***************************************************************************)
(* C6 as stated: a PUT never changes the store; for a stored id it is      *)
(* answered 200 with that record's existing values whatever the body       *)
(* holds, for any other id 404 "User not found".  Fails on the code for a  *)
(* body that does not parse: request.get_json() raises and the answer is   *)
(* 500, for stored and unknown ids alike.                                  *)
(***************************************************************************)
C6_UpdateAsStated ==
    [][request'.method = "PUT" =>
          /\ users_data' = users_data
          /\ response' = IF request'.user_uuid \in StoredUuids
                            THEN Response(200, StoredRecord(request'.user_uuid))
                            ELSE NotFound]_vars

(***************************************************************************)
(* C6 amended: a PUT never changes the store (contents and order).  When   *)
(* its body parses as JSON it is answered 200 with the stored record's     *)
(* existing values, whatever the body holds, for a stored id, and 404      *)
(* "User not found" for any other id; when its body does not parse it is   *)
(* answered 500.                                                           *)
(***************************************************************************)
C6_Update ==
    \A user_uuid \in PathUuids, body \in Bodies :
        LET r == update_user(users_data, user_uuid, body)
        IN  /\ r.users = users_data
            /\ (body.json # "malformed" /\ user_uuid \in StoredUuids)
                  => r.resp = Response(200, StoredRecord(user_uuid))
            /\ (body.json # "malformed" /\ user_uuid \notin StoredUuids)
                  => r.resp = NotFound
            /\ body.json = "malformed" => r.resp.status = 500

\* A PUT carrying a JSON object was answered 200 with the second stored record.
C6_Witness ==
    /\ request.method = "PUT"
    /\ request.json = "object"
    /\ response.status = 200
    /\ Len(users_data) >= 2
    /\ response.json = users_data[2]

(***************************************************************************)
(* C7 as stated: a DELETE for a stored id is answered 200 with "User       *)
(* deleted successfully" and the removed record and removes exactly that   *)
(* record, the others keeping contents and order; a deleted id is in no    *)
(* later listing and gets 404 from any later PUT or DELETE; a DELETE for   *)
(* an id not stored is answered 404.  Fails on the code for a later PUT    *)
(* whose body does not parse, which is answered 500.                       *)
(***************************************************************************)
C7_DeleteAsStated ==
    [][/\ request'.method = "DELETE" =>
             IF request'.user_uuid \in StoredUuids
                THEN /\ response' = Deleted(StoredRecord(request'.user_uuid))
                     /\ Len(users_data') = Len(users_data) - 1
                     /\ users_data' = Without(request'.user_uuid)
                ELSE response' = NotFound
       /\ (request'.method \in {"PUT", "DELETE"} /\ request'.user_uuid \in deleted)
             => response' = NotFound
       /\ request'.method = "GET"
             => \A u \in Range(response'.json.users) : u.uuid \notin deleted]_vars

(***************************************************************************)
(* C7 amended: a DELETE for a stored id is answered 200 with "User deleted *)
(* successfully" and the removed record and removes exactly that record    *)
(* (the length drops by one, the others keep contents and order); a        *)
(* deleted id is in no later listing and gets 404 from any later DELETE    *)
(* and from any later PUT whose body parses as JSON (a PUT whose body does *)
(* not parse gets 500); a DELETE for an id not stored is answered 404      *)
(* "User not found".                                                       *)
(***************************************************************************)
C7_Delete ==
    /\ \A user_uuid \in PathUuids :
        LET r == delete_user(users_data, user_uuid)
        IN  IF user_uuid \in StoredUuids
               THEN /\ r.resp = Deleted(StoredRecord(user_uuid))
                    /\ Len(r.users) = Len(users_data) - 1
                    /\ r.users = Without(user_uuid)
               ELSE r.resp = NotFound
    /\ \A user_uuid \in deleted :
        /\ \A u \in Range(get_users(users_data).resp.json.users) : u.uuid # user_uuid
        /\ delete_user(users_data, user_uuid).resp = NotFound
        /\ \A body \in Bodies :
              update_user(users_data, user_uuid, body).resp
                = IF body.json = "malformed" THEN ServerError ELSE NotFound

\* The second of three records was deleted; the first and the third remain.
C7_Witness ==
    /\ request.method = "DELETE"
    /\ response.status = 200
    /\ Len(created) = 3
    /\ response.json.user = created[2]
    /\ users_data = <<created[1], created[3]>>

(***************************************************************************)
(* C8: GET /api/users always answers 200 and never changes the store, and  *)
(* the list it returns is exactly the records of the successful creates    *)
(* that have not been deleted, in the order those creates succeeded: each  *)
(* successful POST adds its record at the end.                             *)
(***************************************************************************)
C8_Listing ==
    /\ get_users(users_data).users = users_data
    /\ get_users(users_data).resp = Response(200, [users |-> Live])
    /\ \A body \in Bodies :
          LET r == create_user(users_data, uuid_calls, body)
          IN  r.resp.status = 201 => r.users = Append(users_data, r.resp.json)

\* A listing returned the first and third created records, in that order,
\* after the second had been deleted.
C8_Witness ==
    /\ request.method = "GET"
    /\ response.status = 200
    /\ Len(created) = 3
    /\ deleted = {created[2].uuid}
    /\ response.json.users = <<created[1], created[3]>>

(***************************************************************************)
(* C9: every request answered with an error (400, 404 or 500, a body that  *)
(* does not parse and a field holding a non-string value included) leaves  *)
(* the store as it was; the store changes only when a POST is answered 201 *)
(* (one record appended) or a DELETE is answered 200 (one record removed). *)
(***************************************************************************)
C9_ErrorsLeaveStore ==
    /\ \A body \in Bodies :
          LET r == create_user(users_data, uuid_calls, body)
          IN  /\ r.resp.status \in {201, 400, 500}
              /\ r.resp.status # 201 => r.users = users_data
              /\ r.resp.status = 201 => r.users = Append(users_data, r.resp.json)
              /\ (body.json = "malformed" \/ \E f \in Fields : body.data[f].kind = "nonstr")
                    => r.users = users_data
    /\ \A user_uuid \in PathUuids :
          LET r == delete_user(users_data, user_uuid)
          IN  /\ r.resp.status \in {200, 404}
              /\ r.resp.status # 200 => r.users = users_data
              /\ r.resp.status = 200
                    => \E i \in 1..Len(users_data) :
                          r.users = SubSeq(users_data, 1, i - 1)
                                      \o SubSeq(users_data, i + 1, Len(users_data))
    /\ \A user_uuid \in PathUuids, body \in Bodies :
          update_user(users_data, user_uuid, body).users = users_data
    /\ get_users(users_data).users = users_data

\* A POST whose object holds a non-string value was answered 500 while
\* records were stored.
C9_Witness ==
    /\ request.method = "POST"
    /\ request.json = "object"
    /\ request.email.kind = "nonstr"
    /\ response.status = 500
    /\ Len(users_data) >= 1

(***************************************************************************)
(* Two POST /api/users requests handled concurrently (app.run serves each  *)
(* request on a thread of its own; users_data is shared and unlocked).     *)
(* Each thread runs create_user in the steps the interpreter can switch    *)
(* between: parsing and validating the body (thread-local), the duplicate  *)
(* check (reads users_data), building new_user, the append, the response.  *)
(* The check is one step: the other thread only appends, so the scan sees  *)
(* exactly the list as it is when the scan ends.                           *)
(***************************************************************************)
Answer(t, resp) ==
    threads' = [threads EXCEPT ![t].pc = "done", ![t].resp = resp]

\* Lines 18-22: the body does not parse, or is null, or a field is not a string.
ReceiveRaises(t) ==
    /\ threads[t].pc = "idle"
    /\ \E body \in Bodies :
          /\ \/ body.json # "object"
             \/ validate(body.data, 1).outcome = "raise"
          /\ Answer(t, create_user(users_data, uuid_calls, body).resp)
    /\ UNCHANGED <<users_data, uuid_calls, request, response, created, submitted, deleted>>

\* Lines 18-22: a required field is absent or blank.
ReceiveMissing(t) ==
    /\ threads[t].pc = "idle"
    /\ \E body \in Bodies :
          /\ body.json = "object"
          /\ validate(body.data, 1).outcome = "missing"
          /\ Answer(t, MissingField(validate(body.data, 1).field))
    /\ UNCHANGED <<users_data, uuid_calls, request, response, created, submitted, deleted>>

\* Lines 18-22: every required field passes; the handler goes on to the check.
ReceiveValid(t) ==
    /\ threads[t].pc = "idle"
    /\ \E body \in Bodies :
          /\ body.json = "object"
          /\ validate(body.data, 1).outcome = "ok"
          /\ threads' = [threads EXCEPT ![t].pc = "check", ![t].data = body.data]
    /\ UNCHANGED <<users_data, uuid_calls, request, response, created, submitted, deleted>>

\* Line 23-24: the email is stored already.
CheckRejects(t) ==
    /\ threads[t].pc = "check"
    /\ email_exists(users_data, threads[t].data)
    /\ Answer(t, EmailExists)
    /\ UNCHANGED <<users_data, uuid_calls, request, response, created, submitted, deleted>>

\* Line 23: the email is not stored.
CheckPasses(t) ==
    /\ threads[t].pc = "check"
    /\ ~email_exists(users_data, threads[t].data)
    /\ threads' = [threads EXCEPT ![t].pc = "build", ![t].checked_len = Len(users_data)]
    /\ UNCHANGED <<users_data, uuid_calls, request, response, created, submitted, deleted>>

\* Lines 25-32.
Build(t) ==
    /\ threads[t].pc = "build"
    /\ uuid_calls < MaxCreates
    /\ threads' = [threads EXCEPT ![t].pc = "append",
                                  ![t].new_user = new_user(users_data, uuid_calls, threads[t].data)]
    /\ uuid_calls' = uuid_calls + 1
    /\ UNCHANGED <<users_data, request, response, created, submitted, deleted>>

\* Line 34.
AppendUser(t) ==
    /\ threads[t].pc = "append"
    /\ users_data' = append(users_data, threads[t].new_user)
    /\ threads' = [threads EXCEPT ![t].pc = "respond", ![t].appended_at = Len(users_data) + 1]
    /\ UNCHANGED <<uuid_calls, request, response, created, submitted, deleted>>

\* Line 35.
Respond(t) ==
    /\ threads[t].pc = "respond"
    /\ Answer(t, Response(201, threads[t].new_user))
    /\ UNCHANGED <<users_data, uuid_calls, request, response, created, submitted, deleted>>

\* The response is sent; the thread is free for the next request.
Finish(t) ==
    /\ threads[t].pc = "done"
    /\ threads' = [threads EXCEPT ![t] = IdleThread]
    /\ UNCHANGED <<users_data, uuid_calls, request, response, created, submitted, deleted>>

NextConc ==
    \E t \in Threads :
        \/ ReceiveRaises(t)
        \/ ReceiveMissing(t)
        \/ ReceiveValid(t)
        \/ CheckRejects(t)
        \/ CheckPasses(t)
        \/ Build(t)
        \/ AppendUser(t)
        \/ Respond(t)
        \/ Finish(t)

SpecConc == Init /\ [][NextConc]_vars

\* Both threads have answered requests carrying the same email, each having
\* passed its duplicate check before the other appended.
Raced(t, o) ==
    /\ threads[t].pc = "done" /\ threads[o].pc = "done"
    /\ threads[t].appended_at > 0 /\ threads[o].appended_at > 0
    /\ threads[t].data.email = threads[o].data.email
    /\ threads[t].checked_len < threads[o].appended_at
    /\ threads[o].checked_len < threads[t].appended_at

(***************************************************************************)
(* C10: when two POST requests are handled concurrently the duplicate      *)
(* check and the append of one are not atomic with respect to the other:   *)
(* whenever both, carrying the same email, pass the check before either    *)
(* appends, both are answered 201 and the store holds two records with     *)
(* that email (C10_Witness: such an interleaving exists).                  *)
(***************************************************************************)
C10_RaceDuplicates ==
    \A t, o \in Threads :
        (t # o /\ Raced(t, o)) =>
            /\ threads[t].resp = Response(201, threads[t].new_user)
            /\ threads[o].resp = Response(201, threads[o].new_user)
            /\ threads[t].new_user.uuid # threads[o].new_user.uuid
            /\ threads[t].new_user.email = threads[o].new_user.email
            /\ threads[t].appended_at <= Len(users_data)
            /\ threads[o].appended_at <= Len(users_data)
            /\ users_data[threads[t].appended_at] = threads[t].new_user
            /\ users_data[threads[o].appended_at] = threads[o].new_user

\* Both threads were sent the email "b", which the check compares exactly;
\* both passed it on the empty store, both were answered 201, and the store
\* ends with two records holding "b".
C10_Witness ==
    /\ Raced(1, 2)
    /\ threads[1].data.email = Str(<<"b">>)
    /\ threads[1].checked_len = 0 /\ threads[2].checked_len = 0
    /\ threads[1].resp.status = 201 /\ threads[2].resp.status = 201
    /\ Len(users_data) = 2
    /\ users_data[1].email = <<"b">> /\ users_data[2].email = <<"b">>

=============================================================================
